---- MODULE Spec2Model ----
(***************************************************************************)
(* Model of the thermal camera web server:                                 *)
(*   src/thermalcam/web_server.py    the Flask handlers, the producer      *)
(*                                   thread pull_images, the stream        *)
(*                                   generator generate, the slot          *)
(*                                   outputFrame and its lock              *)
(*   src/thermalcam/pi_thermal_cam.py  PiThermalCam: the render state, the *)
(*                                   acquire / process / overlay sequence  *)
(*                                   and save_image                        *)
(*                                                                         *)
(* Images are objects of a heap: a Python name holds a reference, numpy    *)
(* and cv2 calls that return an array allocate a new object, cv2.rectangle *)
(* and cv2.putText draw in place.  An image's content is a record of what  *)
(* was done to it; its pixels are identified by the acquisition number     *)
(* (seq) of the grid they were rendered from.                              *)
(***************************************************************************)
EXTENDS Integers, Sequences, FiniteSets, TLC

\* ------------------------------------------------------------------ bounds
MaxFrames == 2        \* acquisitions the sensor delivers after construction
NumReaders == 3       \* stream clients (generators of /video_feed)
NumPollers == 2       \* stream clients that stay connected in the fair runs
NumHandlers == 2      \* threads of the threaded server serving control routes
MaxRequests == 2      \* control requests served in one run
MaxKeys == 1          \* key and mouse events the on-screen loop gets in one run
MaxCalls == 7         \* calls a one-at-a-time client makes in one run
GridCells == 3        \* cells of the sensor grid (24 * 32 in the program)
Precision == 12       \* bits of a float's significand (53 in float64)

\* ------------------------------------------------------- program constants
None == 0             \* Python None, as a reference
NumColormaps == 9     \* len(_colormap_list)

Readers == 1..NumReaders
Pollers == 1..NumPollers
Handlers == 1..NumHandlers
\* references: _image, outputFrame, one per save_image in progress, one being made
ObjIds == 1..(NumHandlers + 3)

\* ---------------------------------------------------------- Interpolation
\* list(Interpolation): the members in definition order
InterpolationList ==
    << "INTER_NEAREST", "INTER_LINEAR", "INTER_AREA", "INTER_CUBIC",
       "INTER_LANCZOS4", "PURE_SCIPY", "SCIPY_CV2_MIXED" >>

Interpolations == { InterpolationList[i] : i \in 1..Len(InterpolationList) }

\* member.value: the cv2 filter codes (INTER_CUBIC = 2, INTER_AREA = 3), 5 and 6
InterpolationValue(m) ==
    CASE m = "INTER_NEAREST"   -> 0
      [] m = "INTER_LINEAR"    -> 1
      [] m = "INTER_CUBIC"     -> 2
      [] m = "INTER_AREA"      -> 3
      [] m = "INTER_LANCZOS4"  -> 4
      [] m = "PURE_SCIPY"      -> 5
      [] m = "SCIPY_CV2_MIXED" -> 6

\* Interpolation.next: dex[(current.value + 1) % len(dex)], dex 0-based
InterpolationNext(m) ==
    InterpolationList[((InterpolationValue(m) + 1) % Len(InterpolationList)) + 1]

\* Interpolation.prev: dex[(current.value - 1) % len(dex)]
InterpolationPrev(m) ==
    InterpolationList[((InterpolationValue(m) - 1) % Len(InterpolationList)) + 1]

\* ------------------------------------------------- float64 and np.uint8
\* a float: NaN, an infinity (n its sign), the largest finite magnitude (n its
\* sign), or the finite number n / 2^s
NaN == [ k |-> "nan", n |-> 0, s |-> 0 ]
Inf(sign) == [ k |-> "inf", n |-> sign, s |-> 0 ]
MaxFloat(sign) == [ k |-> "max", n |-> sign, s |-> 0 ]
Fin(n) == [ k |-> "fin", n |-> n, s |-> 0 ]

\* the number of bits of n > 0
BitLength(n) == CHOOSE b \in 1..30 : 2^(b - 1) <= n /\ n < 2^b

\* the integer n >= 0 rounded to Precision significant bits, ties to even
RoundSig(n) ==
    IF n < 2^Precision THEN n
    ELSE LET sh == BitLength(n) - Precision
             q == n \div 2^sh
             r == n % 2^sh
             up == r > 2^(sh - 1) \/ (r = 2^(sh - 1) /\ q % 2 = 1)
         IN  (IF up THEN q + 1 ELSE q) * 2^sh

\* a - b of two floats: a is a cell after nan_to_num or a temperature, b a
\* temperature
FSub(a, b) ==
    CASE a.k = "nan" \/ b.k = "nan" -> NaN
      [] a.k = "inf" /\ b.k = "inf" -> IF a.n = b.n THEN NaN ELSE Inf(a.n)
      [] a.k = "inf" -> Inf(a.n)
      [] b.k = "inf" -> Inf(0 - b.n)
      [] a.k = "max" -> MaxFloat(a.n)
      [] OTHER ->
            IF a.n >= b.n THEN Fin(RoundSig(a.n - b.n))
            ELSE Fin(0 - RoundSig(b.n - a.n))

\* a * 255: the largest finite magnitude overflows
FMul255(a) ==
    CASE a.k = "nan" -> NaN
      [] a.k = "inf" -> Inf(a.n)
      [] a.k = "max" -> Inf(a.n)
      [] OTHER ->
            IF a.n >= 0 THEN Fin(RoundSig(a.n * 255))
            ELSE Fin(0 - RoundSig((0 - a.n) * 255))

\* the exponent e of m / d > 0: 2^e <= m / d < 2^(e + 1)
Exponent(m, d) ==
    CHOOSE e \in (0 - Precision)..(Precision + 8) :
       /\ IF e >= 0 THEN 2^e * d <= m ELSE d <= m * 2^(0 - e)
       /\ IF e + 1 >= 0 THEN m < 2^(e + 1) * d ELSE m * 2^(0 - e - 1) < d

\* m / d > 0 rounded to Precision significant bits, ties to even, as k / 2^t
Quotient(m, d) ==
    LET t == Precision - 1 - Exponent(m, d)
        num == m * 2^t
        q == num \div d
        r == num % d
        up == 2 * r > d \/ (2 * r = d /\ q % 2 = 1)
    IN  [ k |-> "fin", n |-> IF up THEN q + 1 ELSE q, s |-> t ]

\* a / d of numpy: a division by zero gives an infinity or NaN with a
\* RuntimeWarning, no exception; a is not negative here, d a range
FDiv(a, d) ==
    CASE a.k = "nan" \/ d.k = "nan" -> NaN
      [] a.k = "inf" /\ d.k = "inf" -> NaN
      [] a.k = "inf" -> Inf(a.n)
      [] d.k = "inf" -> Fin(0)
      [] d.n = 0 -> IF a.n = 0 THEN NaN ELSE Inf(IF a.n > 0 THEN 1 ELSE -1)
      [] a.n = 0 -> Fin(0)
      [] OTHER -> Quotient(a.n, d.n)

\* mutant of CastUint8: NaN converts to all bits set
CastUint8NaNHigh(a) ==
    CASE a.k = "nan" -> { 255 }
      [] a.k = "inf" -> IF a.n > 0 THEN { 0, 255 } ELSE { 0 }
      [] OTHER -> { a.n \div 2^a.s }

\* np.uint8 of a float: the C conversion truncates; it is undefined for NaN,
\* the infinities and what does not fit: the truncating conversion of x86-64
\* and the saturating one of ARM both give 0 for NaN and for what is below 0,
\* and 0 and 255 above
CastUint8(a) ==
    CASE a.k = "nan" -> { 0 }
      [] a.k = "inf" -> IF a.n > 0 THEN { 0, 255 } ELSE { 0 }
      [] a.n < 0 -> { 0, 255 }
      [] a.n \div 2^a.s > 255 -> { (a.n \div 2^a.s) % 256, 255 }
      [] OTHER -> { a.n \div 2^a.s }

\* np.nan_to_num: NaN becomes 0.0, an infinity the largest finite magnitude
NanToNum(a) ==
    CASE a.k = "nan" -> Fin(0)
      [] a.k = "inf" -> MaxFloat(a.n)
      [] OTHER -> a

\* np.min / np.max of a raw grid: NaN if a cell is NaN
NpMin(g) ==
    IF \E i \in 1..Len(g) : g[i].k = "nan" THEN NaN
    ELSE IF \E i \in 1..Len(g) : g[i].k = "inf" /\ g[i].n < 0 THEN Inf(-1)
    ELSE IF \A i \in 1..Len(g) : g[i].k = "inf" THEN Inf(1)
    ELSE Fin(CHOOSE m \in { g[i].n : i \in { j \in 1..Len(g) : g[j].k = "fin" } } :
                \A i \in 1..Len(g) : g[i].k = "fin" => m <= g[i].n)

NpMax(g) ==
    IF \E i \in 1..Len(g) : g[i].k = "nan" THEN NaN
    ELSE IF \E i \in 1..Len(g) : g[i].k = "inf" /\ g[i].n > 0 THEN Inf(1)
    ELSE IF \A i \in 1..Len(g) : g[i].k = "inf" THEN Inf(-1)
    ELSE Fin(CHOOSE m \in { g[i].n : i \in { j \in 1..Len(g) : g[j].k = "fin" } } :
                \A i \in 1..Len(g) : g[i].k = "fin" => m >= g[i].n)

\* ------------------------------------------------------------------ state
VARIABLES
    thermcam,          \* web_server.thermcam: TRUE while it refers to the camera
    outputFrame,       \* web_server.outputFrame: None or a reference
    lock,              \* web_server.lock: who holds it
    heap,              \* the image objects: reference -> content
    use_f,             \* PiThermalCam.use_f
    filter_image,      \* PiThermalCam.filter_image
    colormap_index,    \* PiThermalCam._colormap_index
    interpolation,     \* PiThermalCam._interpolation
    raw_image,         \* PiThermalCam._raw_image: the acquisition number of the grid
    image,             \* PiThermalCam._image: a reference
    current_frame_processed,        \* PiThermalCam._current_frame_processed
    file_saved_notification_start,  \* PiThermalCam._file_saved_notification_start is set
    pcp,               \* position of the producer thread in pull_images
    current_frame,     \* pull_images.current_frame: None or a reference
    branch,            \* the branch _process_raw_image took
    text,              \* the overlay text _add_image_text has built so far
    rpc,               \* position of each stream reader in generate
    encodedImage,      \* generate.encodedImage of each reader: <<>> or <<content>>
    emitted,           \* the last part each reader yielded: <<>> or <<content>>
    published,         \* history: the contents assigned to outputFrame, in order
    hpc,               \* position of each handler thread in its route function
    hop,               \* the route each handler thread is serving
    htmp,              \* the value a handler has read and not yet written back
    snap,              \* save_image: the reference cv2.imwrite was handed
    requests,          \* control requests accepted so far
    snapshots,         \* history: the images save_image wrote, with the publications
                       \* the request started and ended at
    lin,               \* history: the render states a one-at-a-time execution of the
                       \* requests could have reached, with the pending requests
                       \* each already includes
    appexit_response,  \* what the /exit request got: "none" (not requested),
                       \* "error" (RuntimeError) or "ok"
    dpc,               \* position of the main thread in display_camera_onscreen
    exit_requested,    \* PiThermalCam._exit_requested
    displaying_onscreen,  \* PiThermalCam._displaying_onscreen
    keys,              \* history: the key events cv2.waitKey has delivered so far
    calls,             \* history of a one-at-a-time client: the render state at the
                       \* start, then each call with the render state it left
    grid,              \* the readings get_raw_data returned, cell by cell
    temp_min,          \* PiThermalCam._temp_min
    temp_max,          \* PiThermalCam._temp_max
    scaled             \* what _scale_image_temps returned for grid

camvars == << use_f, filter_image, colormap_index, interpolation >>
prodvars == << raw_image, image, current_frame_processed, pcp, current_frame,
               branch, text >>
readvars == << rpc, encodedImage, emitted >>
handvars == << hpc, hop, htmp, snap, requests, snapshots, lin >>
dispvars == << dpc, exit_requested, displaying_onscreen, keys >>
normvars == << grid, temp_min, temp_max, scaled >>
\* what the threads of the server leave alone
sidevars == << appexit_response, dispvars, calls, normvars >>

\* ----------------------------------------------------------------- images
NoText == [ use_f |-> FALSE, interp |-> "none", cmap |-> -1, filt |-> FALSE ]

\* a grid straight from the normaliser, before any processing
RawContent(n) ==
    [ seq |-> n, zoom |-> 1, cmap |-> -1, resize |-> "none", flip |-> FALSE,
      filt |-> FALSE, banner |-> FALSE, text |-> NoText, notice |-> FALSE,
      custom |-> FALSE ]

\* the reference a new object gets: the least one not in use
Alloc(h) == CHOOSE o \in ObjIds \ DOMAIN h : \A q \in ObjIds \ DOMAIN h : o <= q

\* the objects some name still refers to
Collect(h, refs) == [ o \in (DOMAIN h) \cap refs |-> h[o] ]

\* _colormap_list[i]: Python indexes from the end for -9..-1, IndexError outside
ColormapInRange(i) == i >= 0 - NumColormaps /\ i < NumColormaps
ColormapName(i) == i % NumColormaps

Free == [ owner |-> "none", id |-> 0 ]
ByProducer == [ owner |-> "producer", id |-> 0 ]
ByReader(r) == [ owner |-> "reader", id |-> r ]

Range(s) == { s[i] : i \in 1..Len(s) }

\* the references held by some name
Live(img, cf, out, sn) == ({ img, cf, out } \cup { sn[h] : h \in Handlers }) \ { None }

\* a new object holding content c, bound to _image
NewImage(c) ==
    LET o == Alloc(heap)
    IN  /\ image' = o
        /\ heap' = Collect([ q \in DOMAIN heap \cup { o } |->
                                IF q = o THEN c ELSE heap[q] ],
                           Live(o, current_frame, outputFrame, snap))

\* ------------------------------------------------- producer: pull_images
\* mutant of WhileThermcam: current_frame keeps the frame of the iteration before
WhileKeepsFrame ==
    /\ pcp = "while"
    /\ pcp' = IF thermcam THEN "try" ELSE "done"
    /\ UNCHANGED << thermcam, outputFrame, lock, heap, camvars, raw_image, image,
                    current_frame_processed, file_saved_notification_start,
                    current_frame, branch, text, readvars, published, handvars,
                    sidevars >>

\* while thermcam is not None: current_frame = None
WhileThermcam ==
    /\ pcp = "while"
    /\ IF thermcam
          THEN /\ pcp' = "try"
               /\ current_frame' = None
          ELSE /\ pcp' = "done"
               /\ UNCHANGED current_frame
    /\ heap' = Collect(heap, Live(image, current_frame', outputFrame, snap))
    /\ UNCHANGED << thermcam, outputFrame, lock, camvars, raw_image, image,
                    current_frame_processed, file_saved_notification_start,
                    branch, text, readvars, published, handvars,
                    sidevars >>

\* thermcam.update_image_frame(): the global is read again; None has no attribute
TryUpdateImageFrame ==
    /\ pcp = "try"
    /\ pcp' = IF thermcam THEN "pull" ELSE "except"
    /\ UNCHANGED << thermcam, outputFrame, lock, heap, camvars, raw_image, image,
                    current_frame_processed, file_saved_notification_start,
                    current_frame, branch, text, readvars, published, handvars,
                    sidevars >>

\* _pull_raw_image: get_raw_data returns the next grid; it is ranged and scaled,
\* and _scale_image_temps flags the frame as unprocessed
PullRawImage ==
    /\ pcp = "pull"
    /\ raw_image < MaxFrames
    /\ raw_image' = raw_image + 1
    /\ current_frame_processed' = FALSE
    /\ pcp' = "if1"
    /\ UNCHANGED << thermcam, outputFrame, lock, heap, camvars, image,
                    file_saved_notification_start, current_frame, branch, text,
                    readvars, published, handvars,
                    sidevars >>

\* get_raw_data raises (mlx.getFrame failed): _raw_image is not assigned
SensorError ==
    /\ pcp = "pull"
    /\ pcp' = "except"
    /\ UNCHANGED << thermcam, outputFrame, lock, heap, camvars, raw_image, image,
                    current_frame_processed, file_saved_notification_start,
                    current_frame, branch, text, readvars, published, handvars,
                    sidevars >>

\* _process_raw_image: if self._interpolation == Interpolation.PURE_SCIPY: zoom by 25
IfPureScipy ==
    /\ pcp = "if1"
    /\ IF interpolation = "PURE_SCIPY"
          THEN /\ NewImage([ RawContent(raw_image) EXCEPT !.zoom = 25 ])
               /\ branch' = "pure"
               /\ pcp' = "colormap"
          ELSE /\ pcp' = "if2"
               /\ UNCHANGED << image, heap, branch >>
    /\ UNCHANGED << thermcam, outputFrame, lock, camvars, raw_image,
                    current_frame_processed, file_saved_notification_start,
                    current_frame, text, readvars, published, handvars,
                    sidevars >>

\* elif self._interpolation == Interpolation.SCIPY_CV2_MIXED: zoom by 10; else: cv2
IfScipyCv2Mixed ==
    /\ pcp = "if2"
    /\ IF interpolation = "SCIPY_CV2_MIXED"
          THEN /\ NewImage([ RawContent(raw_image) EXCEPT !.zoom = 10 ])
               /\ branch' = "mixed"
          ELSE /\ branch' = "cv2"
               /\ UNCHANGED << image, heap >>
    /\ pcp' = "colormap"
    /\ UNCHANGED << thermcam, outputFrame, lock, camvars, raw_image,
                    current_frame_processed, file_saved_notification_start,
                    current_frame, text, readvars, published, handvars,
                    sidevars >>

\* cv2.applyColorMap(..., cmapy.cmap(self._colormap_list[self._colormap_index]))
ApplyColorMap ==
    /\ pcp = "colormap"
    /\ IF ColormapInRange(colormap_index)
          THEN /\ NewImage([ (IF branch = "cv2" THEN RawContent(raw_image)
                                                ELSE heap[image])
                             EXCEPT !.cmap = ColormapName(colormap_index) ])
               /\ pcp' = IF branch = "pure" THEN "flip" ELSE "resize"
          ELSE /\ pcp' = "except"
               /\ UNCHANGED << image, heap >>
    /\ UNCHANGED << thermcam, outputFrame, lock, camvars, raw_image,
                    current_frame_processed, file_saved_notification_start,
                    current_frame, branch, text, readvars, published, handvars,
                    sidevars >>

\* cv2.resize(self._image, (800, 600), interpolation=...): INTER_CUBIC in the
\* mixed branch, self._interpolation.value in the cv2 branch
Resize ==
    /\ pcp = "resize"
    /\ NewImage([ heap[image] EXCEPT
                    !.resize = IF branch = "mixed" THEN "INTER_CUBIC"
                                                   ELSE interpolation ])
    /\ pcp' = "flip"
    /\ UNCHANGED << thermcam, outputFrame, lock, camvars, raw_image,
                    current_frame_processed, file_saved_notification_start,
                    current_frame, branch, text, readvars, published, handvars,
                    sidevars >>

\* self._image = cv2.flip(self._image, 1)
Flip ==
    /\ pcp = "flip"
    /\ NewImage([ heap[image] EXCEPT !.flip = TRUE ])
    /\ pcp' = "filter"
    /\ UNCHANGED << thermcam, outputFrame, lock, camvars, raw_image,
                    current_frame_processed, file_saved_notification_start,
                    current_frame, branch, text, readvars, published, handvars,
                    sidevars >>

\* if self.filter_image: self._image = cv2.bilateralFilter(self._image, 15, 80, 80)
BilateralFilter ==
    /\ pcp = "filter"
    /\ IF filter_image
          THEN NewImage([ heap[image] EXCEPT !.filt = TRUE ])
          ELSE UNCHANGED << image, heap >>
    /\ pcp' = "use_f"
    /\ UNCHANGED << thermcam, outputFrame, lock, camvars, raw_image,
                    current_frame_processed, file_saved_notification_start,
                    current_frame, branch, text, readvars, published, handvars,
                    sidevars >>

\* _add_image_text: if self.use_f: the temperatures are converted for the text
TextUnits ==
    /\ pcp = "use_f"
    /\ text' = [ NoText EXCEPT !.use_f = use_f ]
    /\ pcp' = "text_interp"
    /\ UNCHANGED << thermcam, outputFrame, lock, heap, camvars, raw_image, image,
                    current_frame_processed, file_saved_notification_start,
                    current_frame, branch, readvars, published, handvars,
                    sidevars >>

\* the f-string evaluates self._interpolation.fname
TextInterpolation ==
    /\ pcp = "text_interp"
    /\ text' = [ text EXCEPT !.interp = interpolation ]
    /\ pcp' = "text_cmap"
    /\ UNCHANGED << thermcam, outputFrame, lock, heap, camvars, raw_image, image,
                    current_frame_processed, file_saved_notification_start,
                    current_frame, branch, readvars, published, handvars,
                    sidevars >>

\* then self._colormap_list[self._colormap_index]
TextColormap ==
    /\ pcp = "text_cmap"
    /\ IF ColormapInRange(colormap_index)
          THEN /\ text' = [ text EXCEPT !.cmap = ColormapName(colormap_index) ]
               /\ pcp' = "text_filter"
          ELSE /\ pcp' = "except"
               /\ UNCHANGED text
    /\ UNCHANGED << thermcam, outputFrame, lock, heap, camvars, raw_image, image,
                    current_frame_processed, file_saved_notification_start,
                    current_frame, branch, readvars, published, handvars,
                    sidevars >>

\* then self.filter_image
TextFilter ==
    /\ pcp = "text_filter"
    /\ text' = [ text EXCEPT !.filt = filter_image ]
    /\ pcp' = "banner"
    /\ UNCHANGED << thermcam, outputFrame, lock, heap, camvars, raw_image, image,
                    current_frame_processed, file_saved_notification_start,
                    current_frame, branch, readvars, published, handvars,
                    sidevars >>

\* _set_image_text_background: cv2.rectangle draws on self._image in place
SetImageTextBackground ==
    /\ pcp = "banner"
    /\ heap' = [ heap EXCEPT ![image].banner = TRUE ]
    /\ pcp' = "puttext"
    /\ UNCHANGED << thermcam, outputFrame, lock, camvars, raw_image, image,
                    current_frame_processed, file_saved_notification_start,
                    current_frame, branch, text, readvars, published, handvars,
                    sidevars >>

\* cv2.putText(self._image, text, ...) draws on self._image in place
PutText ==
    /\ pcp = "puttext"
    /\ heap' = [ heap EXCEPT ![image].text = text ]
    /\ pcp' = "notice"
    /\ UNCHANGED << thermcam, outputFrame, lock, camvars, raw_image, image,
                    current_frame_processed, file_saved_notification_start,
                    current_frame, branch, text, readvars, published, handvars,
                    sidevars >>

\* for one second after a snapshot, "Snapshot Saved!" is drawn in place
SavedNotification ==
    /\ pcp = "notice"
    /\ \E recent \in { b \in BOOLEAN : b => file_saved_notification_start } :
          heap' = [ heap EXCEPT ![image].notice = recent ]
    /\ pcp' = "return"
    /\ UNCHANGED << thermcam, outputFrame, lock, camvars, raw_image, image,
                    current_frame_processed, file_saved_notification_start,
                    current_frame, branch, text, readvars, published, handvars,
                    sidevars >>

\* update_image_frame: self._current_frame_processed = True; return self._image
ReturnImage ==
    /\ pcp = "return"
    /\ current_frame_processed' = TRUE
    /\ current_frame' = image
    /\ pcp' = "ifframe"
    /\ UNCHANGED << thermcam, outputFrame, lock, heap, camvars, raw_image, image,
                    file_saved_notification_start, branch, text, readvars,
                    published, handvars,
                    sidevars >>

\* except Exception: print, log; current_frame is still None
ExceptContinue ==
    /\ pcp = "except"
    /\ pcp' = "ifframe"
    /\ UNCHANGED << thermcam, outputFrame, lock, heap, camvars, raw_image, image,
                    current_frame_processed, file_saved_notification_start,
                    current_frame, branch, text, readvars, published, handvars,
                    sidevars >>

\* if current_frame is not None:
IfCurrentFrame ==
    /\ pcp = "ifframe"
    /\ pcp' = IF current_frame # None THEN "acquire" ELSE "while"
    /\ UNCHANGED << thermcam, outputFrame, lock, heap, camvars, raw_image, image,
                    current_frame_processed, file_saved_notification_start,
                    current_frame, branch, text, readvars, published, handvars,
                    sidevars >>

\* with lock: (the producer)
ProducerAcquire ==
    /\ pcp = "acquire"
    /\ lock = Free
    /\ lock' = ByProducer
    /\ pcp' = "assign"
    /\ UNCHANGED << thermcam, outputFrame, heap, camvars, raw_image, image,
                    current_frame_processed, file_saved_notification_start,
                    current_frame, branch, text, readvars, published, handvars,
                    sidevars >>

\* mutant of CopyOf: no copy, outputFrame is bound to the object itself
NoCopy(ref) == ref

\* the object outputFrame is bound to: current_frame.copy(), a new object
CopyOf(ref) == Alloc(heap)

\* mutant of Publish: the slot is written only while it is empty (first wins)
PublishIfEmpty ==
    /\ pcp = "assign"
    /\ LET o == CopyOf(current_frame)
           h == [ q \in DOMAIN heap \cup { o } |->
                     IF q = o THEN heap[current_frame] ELSE heap[q] ]
       IN  /\ outputFrame' = IF outputFrame = None THEN o ELSE outputFrame
           /\ heap' = Collect(h, Live(image, current_frame, outputFrame', snap))
           /\ published' = Append(published, heap[current_frame])
    /\ pcp' = "release"
    /\ UNCHANGED << thermcam, lock, camvars, raw_image, image,
                    current_frame_processed, file_saved_notification_start,
                    current_frame, branch, text, readvars, handvars,
                    sidevars >>

\* outputFrame = current_frame.copy()
Publish ==
    /\ pcp = "assign"
    /\ LET o == CopyOf(current_frame)
           h == [ q \in DOMAIN heap \cup { o } |->
                     IF q = o THEN heap[current_frame] ELSE heap[q] ]
       IN  /\ outputFrame' = o
           /\ heap' = Collect(h, Live(image, current_frame, o, snap))
           /\ published' = Append(published, heap[current_frame])
    /\ pcp' = "release"
    /\ UNCHANGED << thermcam, lock, camvars, raw_image, image,
                    current_frame_processed, file_saved_notification_start,
                    current_frame, branch, text, readvars, handvars,
                    sidevars >>

\* leaving the with block releases the lock
ProducerRelease ==
    /\ pcp = "release"
    /\ lock' = Free
    /\ pcp' = "while"
    /\ UNCHANGED << thermcam, outputFrame, heap, camvars, raw_image, image,
                    current_frame_processed, file_saved_notification_start,
                    current_frame, branch, text, readvars, published, handvars,
                    sidevars >>

Producer ==
    \/ WhileThermcam \/ TryUpdateImageFrame \/ PullRawImage \/ SensorError
    \/ IfPureScipy \/ IfScipyCv2Mixed \/ ApplyColorMap \/ Resize \/ Flip
    \/ BilateralFilter \/ TextUnits \/ TextInterpolation \/ TextColormap
    \/ TextFilter \/ SetImageTextBackground \/ PutText \/ SavedNotification
    \/ ReturnImage \/ ExceptContinue \/ IfCurrentFrame \/ ProducerAcquire
    \/ Publish \/ ProducerRelease

\* ---------------------------------------------------- readers: generate
\* cv2.imencode(".jpg", frame): (flag, encodedImage); any image array encodes
imencode(c) == [ flag |-> c.seq >= 0, bytes |-> << c >> ]

\* mutant of FrameToEncode: the camera's working image instead of the slot
WorkingImage == image

\* the frame generate hands to cv2.imencode
FrameToEncode == outputFrame

\* with lock: (a reader)
ReaderAcquire(r) ==
    /\ rpc[r] = "acquire"
    /\ lock = Free
    /\ lock' = ByReader(r)
    /\ rpc' = [ rpc EXCEPT ![r] = "check" ]
    /\ UNCHANGED << thermcam, outputFrame, heap, camvars, prodvars,
                    file_saved_notification_start, encodedImage, emitted,
                    published, handvars,
                    sidevars >>

\* mutant of CheckOutputFrame: the retry on an empty slot keeps the lock
CheckKeepsLock(r) ==
    /\ rpc[r] = "check"
    /\ rpc' = [ rpc EXCEPT ![r] = IF outputFrame = None THEN "acquire" ELSE "encode" ]
    /\ UNCHANGED << thermcam, outputFrame, lock, heap, camvars, prodvars,
                    file_saved_notification_start, encodedImage, emitted,
                    published, handvars,
                    sidevars >>

\* if outputFrame is None: continue   (leaving the with block releases the lock)
CheckOutputFrame(r) ==
    /\ rpc[r] = "check"
    /\ IF outputFrame = None
          THEN /\ lock' = Free
               /\ rpc' = [ rpc EXCEPT ![r] = "acquire" ]
          ELSE /\ rpc' = [ rpc EXCEPT ![r] = "encode" ]
               /\ UNCHANGED lock
    /\ UNCHANGED << thermcam, outputFrame, heap, camvars, prodvars,
                    file_saved_notification_start, encodedImage, emitted,
                    published, handvars,
                    sidevars >>

\* (flag, encodedImage) = cv2.imencode(".jpg", outputFrame); if not flag: continue
Encode(r) ==
    /\ rpc[r] = "encode"
    /\ LET res == imencode(heap[FrameToEncode])
       IN  /\ encodedImage' = [ encodedImage EXCEPT ![r] = res.bytes ]
           /\ IF res.flag
                 THEN /\ rpc' = [ rpc EXCEPT ![r] = "exit" ]
                      /\ UNCHANGED lock
                 ELSE /\ lock' = Free
                      /\ rpc' = [ rpc EXCEPT ![r] = "acquire" ]
    /\ UNCHANGED << thermcam, outputFrame, heap, camvars, prodvars,
                    file_saved_notification_start, emitted, published, handvars,
                    sidevars >>

\* the with block ends: the lock is released
ReaderRelease(r) ==
    /\ rpc[r] = "exit"
    /\ lock' = Free
    /\ rpc' = [ rpc EXCEPT ![r] = "yield" ]
    /\ UNCHANGED << thermcam, outputFrame, heap, camvars, prodvars,
                    file_saved_notification_start, encodedImage, emitted,
                    published, handvars,
                    sidevars >>

\* yield (b"--frame ..." + bytearray(encodedImage) + b"\r\n")
Yield(r) ==
    /\ rpc[r] = "yield"
    /\ emitted' = [ emitted EXCEPT ![r] = encodedImage[r] ]
    /\ rpc' = [ rpc EXCEPT ![r] = "acquire" ]
    /\ UNCHANGED << thermcam, outputFrame, lock, heap, camvars, prodvars,
                    file_saved_notification_start, encodedImage, published,
                    handvars,
                    sidevars >>

Reader(r) ==
    \/ ReaderAcquire(r) \/ CheckOutputFrame(r) \/ Encode(r)
    \/ ReaderRelease(r) \/ Yield(r)

\* mutant of Disconnect: the generator is dropped where it runs, inside the
\* with block, and nothing releases the lock
DisconnectInsideWith(r) ==
    /\ rpc[r] \in { "check", "encode", "exit" }
    /\ rpc' = [ rpc EXCEPT ![r] = "closed" ]
    /\ UNCHANGED << thermcam, outputFrame, lock, heap, camvars, prodvars,
                    file_saved_notification_start, encodedImage, emitted,
                    published, handvars, sidevars >>

\* the client is gone: the server closes the generator where it is suspended,
\* at the yield (GeneratorExit is raised there), or drops it before its first
\* step; in both places the generator is outside the with block, about to
\* enter it
Disconnect(r) ==
    /\ rpc[r] = "acquire"
    /\ rpc' = [ rpc EXCEPT ![r] = "closed" ]
    /\ UNCHANGED << thermcam, outputFrame, lock, heap, camvars, prodvars,
                    file_saved_notification_start, encodedImage, emitted,
                    published, handvars, sidevars >>

\* ------------------------------------------- handlers: the control routes
Routes == { "units", "filter", "colormap_next", "colormap_prev",
            "interpolation_next", "interpolation_prev", "save" }

NoValue == [ b |-> FALSE, n |-> 0, m |-> "none" ]

\* mutant of ChangeColormap: no wraparound
ChangeColormapNoWrap(i, forward) == IF forward THEN i + 1 ELSE i - 1

\* mutant of ChangeColormap: the backward wrap goes to the first colormap
ChangeColormapWrapFirst(i, forward) ==
    IF forward
       THEN IF i + 1 = NumColormaps THEN 0 ELSE i + 1
       ELSE IF i - 1 < 0 THEN 0 ELSE i - 1

\* change_colormap run alone from index i
ChangeColormap(i, forward) ==
    IF forward
       THEN IF i + 1 = NumColormaps THEN 0 ELSE i + 1
       ELSE IF i - 1 < 0 THEN NumColormaps - 1 ELSE i - 1

\* a route's function run alone on render state rs
Apply(route, rs) ==
    CASE route = "units"  -> [ rs EXCEPT !.use_f = ~ rs.use_f ]
      [] route = "filter" -> [ rs EXCEPT !.filter_image = ~ rs.filter_image ]
      [] route = "colormap_next" ->
            [ rs EXCEPT !.colormap_index = ChangeColormap(rs.colormap_index, TRUE) ]
      [] route = "colormap_prev" ->
            [ rs EXCEPT !.colormap_index = ChangeColormap(rs.colormap_index, FALSE) ]
      [] route = "interpolation_next" ->
            [ rs EXCEPT !.interpolation = InterpolationNext(rs.interpolation) ]
      [] route = "interpolation_prev" ->
            [ rs EXCEPT !.interpolation = InterpolationPrev(rs.interpolation) ]
      [] route = "save" -> rs

RenderState ==
    [ use_f |-> use_f, filter_image |-> filter_image,
      colormap_index |-> colormap_index, interpolation |-> interpolation ]

\* histories: every pending request may take effect at any moment before it returns
Pending == { h \in Handlers : hpc[h] # "idle" }

LinStep(S) ==
    S \cup UNION { { [ rs |-> Apply(hop[g], s.rs), d |-> s.d \cup { g } ] :
                        g \in Pending \ s.d } : s \in S }

RECURSIVE LinClosure(_, _)
LinClosure(S, n) == IF n = 0 THEN S ELSE LinClosure(LinStep(S), n - 1)

LinReturn(h) ==
    { [ rs |-> s.rs, d |-> s.d \ { h } ] :
         s \in { t \in LinClosure(lin, NumHandlers) : h \in t.d } }

\* a request arrives and a thread of the threaded server starts its function
\* (for /save, htmp.n notes how many frames were published by then)
Request(h) ==
    /\ hpc[h] = "idle"
    /\ thermcam
    /\ requests < MaxRequests
    /\ requests' = requests + 1
    /\ \E route \in Routes :
          /\ hop' = [ hop EXCEPT ![h] = route ]
          /\ hpc' = [ hpc EXCEPT ![h] = IF route = "save" THEN "imwrite" ELSE "read" ]
          /\ htmp' = [ htmp EXCEPT ![h] =
                         IF route = "save" THEN [ NoValue EXCEPT !.n = Len(published) ]
                                           ELSE NoValue ]
    /\ UNCHANGED << thermcam, outputFrame, lock, heap, camvars, prodvars,
                    file_saved_notification_start, readvars, published,
                    snap, snapshots, lin,
                    sidevars >>

\* the right-hand side is evaluated: not thermcam.use_f, self._colormap_index + 1,
\* Interpolation.next(self._interpolation), ...
ReadState(h) ==
    /\ hpc[h] = "read"
    /\ htmp' = [ htmp EXCEPT ![h] =
                   CASE hop[h] = "units"  -> [ NoValue EXCEPT !.b = use_f ]
                     [] hop[h] = "filter" -> [ NoValue EXCEPT !.b = filter_image ]
                     [] hop[h] \in { "colormap_next", "colormap_prev" } ->
                           [ NoValue EXCEPT !.n = colormap_index ]
                     [] OTHER -> [ NoValue EXCEPT !.m = interpolation ] ]
    /\ hpc' = [ hpc EXCEPT ![h] = "write" ]
    /\ UNCHANGED << thermcam, outputFrame, lock, heap, camvars, prodvars,
                    file_saved_notification_start, readvars, published, hop,
                    snap, requests, snapshots, lin,
                    sidevars >>

\* and assigned: thermcam.use_f = ..., self._colormap_index += 1, ...
WriteState(h) ==
    /\ hpc[h] = "write"
    /\ use_f' = IF hop[h] = "units" THEN ~ htmp[h].b ELSE use_f
    /\ filter_image' = IF hop[h] = "filter" THEN ~ htmp[h].b ELSE filter_image
    /\ colormap_index' =
          CASE hop[h] = "colormap_next" -> htmp[h].n + 1
            [] hop[h] = "colormap_prev" -> htmp[h].n - 1
            [] OTHER -> colormap_index
    /\ interpolation' =
          CASE hop[h] = "interpolation_next" -> InterpolationNext(htmp[h].m)
            [] hop[h] = "interpolation_prev" -> InterpolationPrev(htmp[h].m)
            [] OTHER -> interpolation
    /\ htmp' = [ htmp EXCEPT ![h] = NoValue ]
    /\ hpc' = [ hpc EXCEPT ![h] =
                  IF hop[h] \in { "colormap_next", "colormap_prev" }
                     THEN "test" ELSE "return" ]
    /\ UNCHANGED << thermcam, outputFrame, lock, heap, prodvars,
                    file_saved_notification_start, readvars, published, hop,
                    snap, requests, snapshots, lin,
                    sidevars >>

\* change_colormap: if self._colormap_index == len(self._colormap_list):
\*                  if self._colormap_index < 0:
ChangeColormapTest(h) ==
    /\ hpc[h] = "test"
    /\ hpc' = [ hpc EXCEPT ![h] =
                  IF \/ hop[h] = "colormap_next" /\ colormap_index = NumColormaps
                     \/ hop[h] = "colormap_prev" /\ colormap_index < 0
                     THEN "wrap" ELSE "return" ]
    /\ UNCHANGED << thermcam, outputFrame, lock, heap, camvars, prodvars,
                    file_saved_notification_start, readvars, published, hop,
                    htmp, snap, requests, snapshots, lin,
                    sidevars >>

\* self._colormap_index = 0   /   self._colormap_index = len(self._colormap_list) - 1
ChangeColormapWrap(h) ==
    /\ hpc[h] = "wrap"
    /\ colormap_index' = IF hop[h] = "colormap_next" THEN 0 ELSE NumColormaps - 1
    /\ hpc' = [ hpc EXCEPT ![h] = "return" ]
    /\ UNCHANGED << thermcam, outputFrame, lock, heap, use_f, filter_image,
                    interpolation, prodvars, file_saved_notification_start,
                    readvars, published, hop, htmp, snap, requests, snapshots, lin,
                    sidevars >>

\* the image save_image hands to cv2.imwrite
ImageToSave == image

\* save_image: cv2.imwrite(fname, self._image): the argument is evaluated
SaveImageArgument(h) ==
    /\ hpc[h] = "imwrite"
    /\ snap' = [ snap EXCEPT ![h] = ImageToSave ]
    /\ hpc' = [ hpc EXCEPT ![h] = "writing" ]
    /\ UNCHANGED << thermcam, outputFrame, lock, heap, camvars, prodvars,
                    file_saved_notification_start, readvars, published, hop,
                    htmp, requests, snapshots, lin,
                    sidevars >>

\* the file is written from the array as it is by then
SaveImageWrite(h) ==
    /\ hpc[h] = "writing"
    /\ snapshots' = snapshots \cup
          { [ img |-> heap[snap[h]], first |-> htmp[h].n, last |-> Len(published) ] }
    /\ snap' = [ snap EXCEPT ![h] = None ]
    /\ heap' = Collect(heap, Live(image, current_frame, outputFrame, snap'))
    /\ htmp' = [ htmp EXCEPT ![h] = NoValue ]
    /\ hpc' = [ hpc EXCEPT ![h] = "notify" ]
    /\ UNCHANGED << thermcam, outputFrame, lock, camvars, prodvars,
                    file_saved_notification_start, readvars, published, hop,
                    requests, lin,
                    sidevars >>

\* self._file_saved_notification_start = time.monotonic()
SaveImageNotify(h) ==
    /\ hpc[h] = "notify"
    /\ file_saved_notification_start' = TRUE
    /\ hpc' = [ hpc EXCEPT ![h] = "return" ]
    /\ UNCHANGED << thermcam, outputFrame, lock, heap, camvars, prodvars,
                    readvars, published, hop, htmp, snap, requests, snapshots, lin,
                    sidevars >>

\* the route function returns its response
Return(h) ==
    /\ hpc[h] = "return"
    /\ lin' = LinReturn(h)
    /\ hpc' = [ hpc EXCEPT ![h] = "idle" ]
    /\ hop' = [ hop EXCEPT ![h] = "none" ]
    /\ UNCHANGED << thermcam, outputFrame, lock, heap, camvars, prodvars,
                    file_saved_notification_start, readvars, published, htmp,
                    snap, requests, snapshots,
                    sidevars >>

Handler(h) ==
    \/ Request(h) \/ ReadState(h) \/ WriteState(h) \/ ChangeColormapTest(h)
    \/ ChangeColormapWrap(h) \/ SaveImageArgument(h) \/ SaveImageWrite(h)
    \/ SaveImageNotify(h) \/ Return(h)

\* ------------------------------------------------------------ /exit
\* appexit: func = request.environ.get("werkzeug.server.shutdown"); the key is
\* there or not with the server that runs the app. Without it the handler
\* raises before it clears thermcam; with it the server is shut down and
\* thermcam = None
AppExit ==
    /\ thermcam
    /\ appexit_response = "none"
    /\ \E func \in BOOLEAN :
          IF func
             THEN /\ thermcam' = FALSE
                  /\ appexit_response' = "ok"
             ELSE /\ appexit_response' = "error"
                  /\ UNCHANGED thermcam
    /\ UNCHANGED << outputFrame, lock, heap, camvars, prodvars,
                    file_saved_notification_start, readvars, published, handvars,
                    dispvars, calls, normvars >>

\* ------------------------------------------------------------------ Init
\* the image a whole run of _process_raw_image and _add_image_text makes of
\* grid n under one value of the render state
Rendered(n, interp, cmap, filt, usef, note) ==
    [ seq |-> n,
      zoom |-> IF interp = "PURE_SCIPY" THEN 25
               ELSE IF interp = "SCIPY_CV2_MIXED" THEN 10 ELSE 1,
      cmap |-> cmap,
      resize |-> IF interp = "PURE_SCIPY" THEN "none"
                 ELSE IF interp = "SCIPY_CV2_MIXED" THEN "INTER_CUBIC" ELSE interp,
      flip |-> TRUE,
      filt |-> filt,
      banner |-> TRUE,
      text |-> [ use_f |-> usef, interp |-> interp, cmap |-> cmap, filt |-> filt ],
      notice |-> note,
      custom |-> FALSE ]

\* ------------------------------------- the on-screen loop (main thread)
\* what cv2.waitKey and the mouse callback can deliver in one iteration
Keys == { "s", "c", "x", "f", "t", "u", "i", "esc", "dblclick" }

\* the route whose function a key runs (_set_click_keyboard_events)
KeyRoute(key) ==
    CASE key = "c" -> "colormap_next"
      [] key = "x" -> "colormap_prev"
      [] key = "f" -> "filter"
      [] key = "t" -> "units"
      [] key = "u" -> "interpolation_next"
      [] key = "i" -> "interpolation_prev"
      [] OTHER     -> "save"

\* the route whose function _print_shortcuts_keys announces for a key
\* ("U - Go back to the previous Interpolation Algorithm",
\*  "I - Change the Interpolation Algorithm Used")
PrintShortcutsKeys(key) ==
    CASE key = "c" -> "colormap_next"
      [] key = "x" -> "colormap_prev"
      [] key = "f" -> "filter"
      [] key = "t" -> "units"
      [] key = "u" -> "interpolation_prev"
      [] key = "i" -> "interpolation_next"
      [] OTHER     -> "save"

\* while not self._exit_requested:
DisplayWhile ==
    /\ dpc = "while"
    /\ dpc' = IF exit_requested THEN "done" ELSE "call"
    /\ UNCHANGED << thermcam, outputFrame, lock, heap, camvars, prodvars,
                    file_saved_notification_start, readvars, published, handvars,
                    appexit_response, exit_requested, displaying_onscreen, keys,
                    calls, normvars >>

\* display_next_frame_onscreen up to _show_processed_image: the shortcuts are
\* printed once, then update_image_frame renders the next grid under the
\* render state (no other thread runs yet), or the sensor read or the
\* processing raises: RuntimeError("Too many retries") or any other error
DisplayNextFrame ==
    /\ dpc = "call"
    /\ displaying_onscreen' = TRUE
    /\ \/ /\ raw_image < MaxFrames
          /\ raw_image' = raw_image + 1
          /\ \E recent \in { b \in BOOLEAN : b => file_saved_notification_start } :
                NewImage(Rendered(raw_image + 1, interpolation,
                                  ColormapName(colormap_index), filter_image,
                                  use_f, recent))
          /\ current_frame_processed' = TRUE
          /\ branch' = IF interpolation = "PURE_SCIPY" THEN "pure"
                       ELSE IF interpolation = "SCIPY_CV2_MIXED" THEN "mixed"
                       ELSE "cv2"
          /\ text' = [ use_f |-> use_f, interp |-> interpolation,
                       cmap |-> ColormapName(colormap_index),
                       filt |-> filter_image ]
          /\ dpc' = "keys"
       \/ /\ \E e \in { "except_retries", "except_other" } : dpc' = e
          /\ UNCHANGED << raw_image, image, heap, current_frame_processed,
                          branch, text >>
    /\ UNCHANGED << thermcam, outputFrame, lock, camvars, pcp, current_frame,
                    file_saved_notification_start, readvars, published, handvars,
                    appexit_response, exit_requested, keys, calls, normvars >>

\* except RuntimeError as e: if "Too many retries" in str(e): continue; raise
\* (an error of another class is not caught at all)
DisplayExcept ==
    /\ dpc \in { "except_retries", "except_other" }
    /\ dpc' = IF dpc = "except_retries" THEN "while" ELSE "raised"
    /\ UNCHANGED << thermcam, outputFrame, lock, heap, camvars, prodvars,
                    file_saved_notification_start, readvars, published, handvars,
                    appexit_response, exit_requested, displaying_onscreen, keys,
                    calls, normvars >>

\* _set_click_keyboard_events: key = cv2.waitKey(1) & 0xFF, with the mouse
\* callback served meanwhile; no event, or the function of the key
KeyEvent ==
    /\ dpc = "keys"
    /\ dpc' = "while"
    /\ \/ UNCHANGED << camvars, file_saved_notification_start, snapshots,
                        exit_requested, displaying_onscreen, keys >>
       \/ /\ Len(keys) < MaxKeys
          /\ \E key \in Keys :
                /\ keys' = Append(keys, key)
                /\ CASE key = "esc" ->
                           /\ displaying_onscreen' = FALSE
                           /\ exit_requested' = TRUE
                           /\ UNCHANGED << camvars, file_saved_notification_start,
                                           snapshots >>
                     [] key \in { "s", "dblclick" } ->
                           /\ snapshots' = snapshots \cup
                                 { [ img |-> heap[image], first |-> Len(published),
                                     last |-> Len(published) ] }
                           /\ file_saved_notification_start' = TRUE
                           /\ UNCHANGED << camvars, exit_requested,
                                           displaying_onscreen >>
                     [] OTHER ->
                           LET rs == Apply(KeyRoute(key), RenderState)
                           IN  /\ use_f' = rs.use_f
                               /\ filter_image' = rs.filter_image
                               /\ colormap_index' = rs.colormap_index
                               /\ interpolation' = rs.interpolation
                               /\ UNCHANGED << file_saved_notification_start,
                                               snapshots, exit_requested,
                                               displaying_onscreen >>
    /\ UNCHANGED << thermcam, outputFrame, lock, heap, prodvars, readvars,
                    published, hpc, hop, htmp, snap, requests, lin,
                    appexit_response, calls, normvars >>

Display == DisplayWhile \/ DisplayNextFrame \/ DisplayExcept \/ KeyEvent

\* mutant of StartServer: the server is started while the on-screen loop runs
StartServerBesideDisplay ==
    /\ dpc # "off"
    /\ pcp = "idle"
    /\ thermcam' = TRUE
    /\ pcp' = "while"
    /\ UNCHANGED << outputFrame, lock, heap, camvars, raw_image, image,
                    current_frame_processed, current_frame, branch, text,
                    file_saved_notification_start, readvars, published, handvars,
                    appexit_response, dispvars, calls, normvars >>

\* main.py: display_camera_onscreen() has returned and operations.web_server
\* is on: start_server binds thermcam and starts the pull_images thread
StartServer ==
    /\ dpc = "done"
    /\ pcp = "idle"
    /\ thermcam' = TRUE
    /\ pcp' = "while"
    /\ UNCHANGED << outputFrame, lock, heap, camvars, raw_image, image,
                    current_frame_processed, current_frame, branch, text,
                    file_saved_notification_start, readvars, published, handvars,
                    appexit_response, dispvars, calls, normvars >>

NoTemp == [ k |-> "none", n |-> 0, s |-> 0 ]

\* no /exit yet, no on-screen loop (operations.display_local is off), and the
\* grids taken as whole values
InitSide ==
    /\ appexit_response = "none"
    /\ dpc = "off"
    /\ exit_requested = FALSE
    /\ displaying_onscreen = FALSE
    /\ keys = << >>
    /\ calls = << >>
    /\ grid = << >>
    /\ temp_min = NoTemp
    /\ temp_max = NoTemp
    /\ scaled = << >>

\* PiThermalCam.__init__ (use_f=True, filter_image=False, index 0, INTER_CUBIC)
\* ends with update_image_frame(); start_server binds thermcam
Init ==
    /\ thermcam = TRUE
    /\ outputFrame = None
    /\ lock = Free
    /\ use_f = TRUE
    /\ filter_image = FALSE
    /\ colormap_index = 0
    /\ interpolation = "INTER_CUBIC"
    /\ raw_image = 0
    /\ image = 1
    /\ heap = [ o \in { 1 } |-> Rendered(0, "INTER_CUBIC", 0, FALSE, TRUE, FALSE) ]
    /\ current_frame_processed = TRUE
    /\ file_saved_notification_start = FALSE
    /\ pcp = "while"
    /\ current_frame = None
    /\ branch = "cv2"
    /\ text = [ use_f |-> TRUE, interp |-> "INTER_CUBIC", cmap |-> 0, filt |-> FALSE ]
    /\ rpc = [ r \in Readers |-> "acquire" ]
    /\ encodedImage = [ r \in Readers |-> << >> ]
    /\ emitted = [ r \in Readers |-> << >> ]
    /\ published = << >>
    /\ hpc = [ h \in Handlers |-> "idle" ]
    /\ hop = [ h \in Handlers |-> "none" ]
    /\ htmp = [ h \in Handlers |-> NoValue ]
    /\ snap = [ h \in Handlers |-> None ]
    /\ requests = 0
    /\ snapshots = { }
    /\ lin = { [ rs |-> [ use_f |-> TRUE, filter_image |-> FALSE,
                          colormap_index |-> 0, interpolation |-> "INTER_CUBIC" ],
                 d |-> { } ] }
    /\ InitSide

vars == << thermcam, outputFrame, lock, heap, use_f, filter_image, colormap_index,
           interpolation, raw_image, image, current_frame_processed,
           file_saved_notification_start, pcp, current_frame, branch, text,
           rpc, encodedImage, emitted, published, hpc, hop, htmp, snap, requests,
           snapshots, lin, appexit_response, dpc, exit_requested,
           displaying_onscreen, keys, calls, grid, temp_min, temp_max, scaled >>

\* the stream: the producer thread and the stream clients
Next == Producer \/ (\E r \in Readers : Reader(r))

Spec == Init /\ [][Next]_vars

\* the stream of NumPollers connected clients with a request to /exit
NextShutdown == Producer \/ (\E r \in Pollers : Reader(r)) \/ AppExit

\* the server's threads keep being scheduled
ShutdownSpec ==
    /\ Init /\ [][NextShutdown]_vars
    /\ WF_vars(Producer)
    /\ \A r \in Pollers : WF_vars(Reader(r))

\* main.py with both operations on: the on-screen loop first, thermcam unbound
\* and no server thread until it has returned
InitDisplay ==
    /\ thermcam = FALSE
    /\ outputFrame = None
    /\ lock = Free
    /\ use_f = TRUE
    /\ filter_image = FALSE
    /\ colormap_index = 0
    /\ interpolation = "INTER_CUBIC"
    /\ raw_image = 0
    /\ image = 1
    /\ heap = [ o \in { 1 } |-> Rendered(0, "INTER_CUBIC", 0, FALSE, TRUE, FALSE) ]
    /\ current_frame_processed = TRUE
    /\ file_saved_notification_start = FALSE
    /\ pcp = "idle"
    /\ current_frame = None
    /\ branch = "cv2"
    /\ text = [ use_f |-> TRUE, interp |-> "INTER_CUBIC", cmap |-> 0, filt |-> FALSE ]
    /\ rpc = [ r \in Readers |-> "acquire" ]
    /\ encodedImage = [ r \in Readers |-> << >> ]
    /\ emitted = [ r \in Readers |-> << >> ]
    /\ published = << >>
    /\ hpc = [ h \in Handlers |-> "idle" ]
    /\ hop = [ h \in Handlers |-> "none" ]
    /\ htmp = [ h \in Handlers |-> NoValue ]
    /\ snap = [ h \in Handlers |-> None ]
    /\ requests = 0
    /\ snapshots = { }
    /\ lin = { [ rs |-> [ use_f |-> TRUE, filter_image |-> FALSE,
                          colormap_index |-> 0, interpolation |-> "INTER_CUBIC" ],
                 d |-> { } ] }
    /\ appexit_response = "none"
    /\ dpc = "while"
    /\ exit_requested = FALSE
    /\ displaying_onscreen = FALSE
    /\ keys = << >>
    /\ calls = << >>
    /\ grid = << >>
    /\ temp_min = NoTemp
    /\ temp_max = NoTemp
    /\ scaled = << >>

\* the main thread, then the server: the producer thread and NumPollers stream
\* clients that may disconnect
NextDisplay ==
    \/ Display
    \/ StartServer
    \/ Producer
    \/ \E r \in Pollers : (pcp # "idle" /\ Reader(r))
    \/ \E r \in Pollers : (pcp # "idle" /\ Disconnect(r))

\* the server's threads keep being scheduled
DisplaySpec ==
    /\ InitDisplay /\ [][NextDisplay]_vars
    /\ WF_vars(Producer)
    /\ \A r \in Pollers : WF_vars(Reader(r))

\* ------------------------------------------ the cycles, one call at a time
\* a camera in any render state of the two cycles, no loop running
InitCycle ==
    /\ thermcam = TRUE
    /\ outputFrame = None
    /\ lock = Free
    /\ use_f = TRUE
    /\ filter_image = FALSE
    /\ colormap_index \in 0..(NumColormaps - 1)
    /\ interpolation \in Interpolations
    /\ raw_image = 0
    /\ image = 1
    /\ heap = [ o \in { 1 } |-> Rendered(0, "INTER_CUBIC", 0, FALSE, TRUE, FALSE) ]
    /\ current_frame_processed = TRUE
    /\ file_saved_notification_start = FALSE
    /\ pcp = "idle"
    /\ current_frame = None
    /\ branch = "cv2"
    /\ text = [ use_f |-> TRUE, interp |-> "INTER_CUBIC", cmap |-> 0, filt |-> FALSE ]
    /\ rpc = [ r \in Readers |-> "acquire" ]
    /\ encodedImage = [ r \in Readers |-> << >> ]
    /\ emitted = [ r \in Readers |-> << >> ]
    /\ published = << >>
    /\ hpc = [ h \in Handlers |-> "idle" ]
    /\ hop = [ h \in Handlers |-> "none" ]
    /\ htmp = [ h \in Handlers |-> NoValue ]
    /\ snap = [ h \in Handlers |-> None ]
    /\ requests = 0
    /\ snapshots = { }
    /\ lin = { }
    /\ appexit_response = "none"
    /\ dpc = "off"
    /\ exit_requested = FALSE
    /\ displaying_onscreen = FALSE
    /\ keys = << >>
    /\ calls = << [ route |-> "start", rs |-> RenderState ] >>
    /\ grid = << >>
    /\ temp_min = NoTemp
    /\ temp_max = NoTemp
    /\ scaled = << >>

\* the routes of one cycle
CycleOf(route) ==
    IF route \in { "colormap_next", "colormap_prev" }
       THEN { "colormap_next", "colormap_prev" }
       ELSE { "interpolation_next", "interpolation_prev" }

\* thermcam.change_colormap(...) or thermcam.change_interpolation(...) run to
\* its end before the next call; one run stays within one cycle
CallRoute ==
    /\ Len(calls) <= MaxCalls
    /\ \E route \in { "colormap_next", "colormap_prev",
                       "interpolation_next", "interpolation_prev" } :
          /\ Len(calls) > 1 => route \in CycleOf(calls[2].route)
          /\ LET rs == Apply(route, RenderState)
             IN  /\ use_f' = rs.use_f
                 /\ filter_image' = rs.filter_image
                 /\ colormap_index' = rs.colormap_index
                 /\ interpolation' = rs.interpolation
                 /\ calls' = Append(calls, [ route |-> route, rs |-> rs ])
    /\ UNCHANGED << thermcam, outputFrame, lock, heap, prodvars,
                    file_saved_notification_start, readvars, published, handvars,
                    appexit_response, dispvars, normvars >>

CycleSpec == InitCycle /\ [][CallRoute]_vars

\* --------------------------------------------- one acquisition, cell by cell
\* what a cell of the sensor's grid can hold
Readings == { Fin(20), Fin(30), Fin(39), NaN, Inf(1), Inf(-1) }

\* np.uint8 of each cell: the grids the conversion can give
CastAll(fl) ==
    IF fl = << >> THEN { << >> }
    ELSE LET RECURSIVE Rest(_)
             Rest(t) == IF t = << >> THEN { << >> }
                        ELSE { << h >> \o u : h \in CastUint8(Head(t)), u \in Rest(Tail(t)) }
         IN  Rest(fl)

\* common_utils.temps_to_rescaled_uints: what it can return or raise
\* (norm.shape = (24, 32) raises ValueError for a grid of another size)
TempsToRescaledUints(img_arr, min, max) ==
    LET clean == [ i \in 1..Len(img_arr) |-> NanToNum(img_arr[i]) ]
        range == FSub(max, min)
        norm == [ i \in 1..Len(img_arr) |->
                     FDiv(FMul255(FSub(clean[i], min)), range) ]
    IN  IF Len(img_arr) # GridCells
           THEN { [ exc |-> "ValueError", cells |-> << >> ] }
           ELSE { [ exc |-> "none", cells |-> c ] : c \in CastAll(norm) }

\* self._raw_image = self.thermal_sensor.get_raw_data()
GetRawData ==
    /\ pcp = "get_raw_data"
    /\ grid' \in [ 1..GridCells -> Readings ]
    /\ pcp' = "minmax"
    /\ UNCHANGED << thermcam, outputFrame, lock, heap, camvars, raw_image, image,
                    current_frame_processed, current_frame, branch, text,
                    file_saved_notification_start, readvars, published, handvars,
                    appexit_response, dispvars, calls, temp_min, temp_max, scaled >>

\* _set_minmax_image_temp(self._raw_image): on the grid as the sensor gave it
SetMinmaxImageTemp ==
    /\ pcp = "minmax"
    /\ temp_min' = NpMin(grid)
    /\ temp_max' = NpMax(grid)
    /\ pcp' = "scale"
    /\ UNCHANGED << thermcam, outputFrame, lock, heap, camvars, raw_image, image,
                    current_frame_processed, current_frame, branch, text,
                    file_saved_notification_start, readvars, published, handvars,
                    appexit_response, dispvars, calls, grid, scaled >>

\* _scale_image_temps: the rescaled grid and the flag cleared, or, on
\* ValueError or OSError, np.zeros((24 * 32,)) and the flag as it was
ScaleImageTemps ==
    /\ pcp = "scale"
    /\ \E res \in TempsToRescaledUints(grid, temp_min, temp_max) :
          IF res.exc = "none"
             THEN /\ scaled' = [ dtype |-> "uint8", cells |-> res.cells ]
                  /\ current_frame_processed' = FALSE
             ELSE /\ scaled' = [ dtype |-> "float64",
                                 cells |-> [ i \in 1..GridCells |-> 0 ] ]
                  /\ UNCHANGED current_frame_processed
    /\ pcp' = "pulled"
    /\ UNCHANGED << thermcam, outputFrame, lock, heap, camvars, raw_image, image,
                    current_frame, branch, text,
                    file_saved_notification_start, readvars, published, handvars,
                    appexit_response, dispvars, calls, grid, temp_min, temp_max >>

\* a constructed camera about to pull one grid
InitNorm ==
    /\ thermcam = TRUE
    /\ outputFrame = None
    /\ lock = Free
    /\ use_f = TRUE
    /\ filter_image = FALSE
    /\ colormap_index = 0
    /\ interpolation = "INTER_CUBIC"
    /\ raw_image = 0
    /\ image = 1
    /\ heap = [ o \in { 1 } |-> Rendered(0, "INTER_CUBIC", 0, FALSE, TRUE, FALSE) ]
    /\ current_frame_processed = TRUE
    /\ file_saved_notification_start = FALSE
    /\ pcp = "get_raw_data"
    /\ current_frame = None
    /\ branch = "cv2"
    /\ text = [ use_f |-> TRUE, interp |-> "INTER_CUBIC", cmap |-> 0, filt |-> FALSE ]
    /\ rpc = [ r \in Readers |-> "acquire" ]
    /\ encodedImage = [ r \in Readers |-> << >> ]
    /\ emitted = [ r \in Readers |-> << >> ]
    /\ published = << >>
    /\ hpc = [ h \in Handlers |-> "idle" ]
    /\ hop = [ h \in Handlers |-> "none" ]
    /\ htmp = [ h \in Handlers |-> NoValue ]
    /\ snap = [ h \in Handlers |-> None ]
    /\ requests = 0
    /\ snapshots = { }
    /\ lin = { }
    /\ appexit_response = "none"
    /\ dpc = "off"
    /\ exit_requested = FALSE
    /\ displaying_onscreen = FALSE
    /\ keys = << >>
    /\ calls = << >>
    /\ grid = << >>
    /\ temp_min = NoTemp
    /\ temp_max = NoTemp
    /\ scaled = [ dtype |-> "none", cells |-> << >> ]

NextNorm == GetRawData \/ SetMinmaxImageTemp \/ ScaleImageTemps

NormSpec == InitNorm /\ [][NextNorm]_vars

\* ------------------------- the frame interface, one call at a time
\* what get_raw_data of the configured ThermalSensor can return: a grid of the
\* size temps_to_rescaled_uints reshapes to, or a grid of another size
SensorGrids ==
    UNION { [ 1..len -> { Fin(20), Fin(30) } ] : len \in { GridCells, GridCells + 1 } }

\* _pull_raw_image but for the flag: the next grid, its range, and what
\* _scale_image_temps returned (np.zeros((24 * 32,)) on ValueError)
PullGrid ==
    /\ raw_image < MaxFrames
    /\ raw_image' = raw_image + 1
    /\ \E g \in SensorGrids :
          /\ grid' = g
          /\ temp_min' = NpMin(g)
          /\ temp_max' = NpMax(g)
          /\ \E res \in TempsToRescaledUints(g, NpMin(g), NpMax(g)) :
                scaled' = IF res.exc = "none"
                             THEN [ dtype |-> "uint8", cells |-> res.cells ]
                             ELSE [ dtype |-> "float64",
                                    cells |-> [ i \in 1..GridCells |-> 0 ] ]

\* _scale_image_temps: the flag is cleared in the try block, after
\* temps_to_rescaled_uints returned; the except branches leave it as it was
FlagAfterScale(out) ==
    IF out.dtype = "uint8" THEN FALSE ELSE current_frame_processed

\* _process_raw_image and _add_image_text on grid n, run alone
ProcessAndText(n) ==
    /\ \E recent \in { b \in BOOLEAN : b => file_saved_notification_start } :
          NewImage(Rendered(n, interpolation, ColormapName(colormap_index),
                            filter_image, use_f, recent))
    /\ branch' = IF interpolation = "PURE_SCIPY" THEN "pure"
                 ELSE IF interpolation = "SCIPY_CV2_MIXED" THEN "mixed"
                 ELSE "cv2"
    /\ text' = [ use_f |-> use_f, interp |-> interpolation,
                 cmap |-> ColormapName(colormap_index), filt |-> filter_image ]

\* update_image_frame()
UpdateImageFrame ==
    /\ PullGrid
    /\ ProcessAndText(raw_image + 1)
    /\ current_frame_processed' = TRUE
    /\ UNCHANGED << thermcam, outputFrame, lock, camvars, pcp, current_frame,
                    file_saved_notification_start, readvars, published, handvars,
                    appexit_response, dispvars, calls >>

\* update_raw_image_only()
UpdateRawImageOnly ==
    /\ PullGrid
    /\ current_frame_processed' = FlagAfterScale(scaled')
    /\ UNCHANGED << thermcam, outputFrame, lock, heap, camvars, image, pcp,
                    current_frame, branch, text, file_saved_notification_start,
                    readvars, published, handvars, appexit_response, dispvars,
                    calls >>

\* get_current_raw_image_frame()
GetCurrentRawImageFrame ==
    /\ PullGrid
    /\ current_frame_processed' = FlagAfterScale(scaled')
    /\ UNCHANGED << thermcam, outputFrame, lock, heap, camvars, image, pcp,
                    current_frame, branch, text, file_saved_notification_start,
                    readvars, published, handvars, appexit_response, dispvars,
                    calls >>

\* get_current_image_frame(): the image is made again only if the flag is down
GetCurrentImageFrame ==
    /\ IF ~ current_frame_processed
          THEN /\ ProcessAndText(raw_image)
               /\ current_frame_processed' = TRUE
          ELSE UNCHANGED << image, heap, branch, text, current_frame_processed >>
    /\ UNCHANGED << thermcam, outputFrame, lock, camvars, raw_image, pcp,
                    current_frame, file_saved_notification_start, readvars,
                    published, handvars, appexit_response, dispvars, calls,
                    normvars >>

\* main.py with both operations on: the on-screen loop, then the server with
\* its producer thread, a stream client and a thread serving control requests
NextProgram ==
    \/ Display
    \/ StartServer
    \/ Producer
    \/ (pcp # "idle" /\ Reader(1))
    \/ (pcp # "idle" /\ Handler(1))

ProgramSpec == InitDisplay /\ [][NextProgram]_vars

\* a constructed camera (__init__ ran update_image_frame once) and a client
\* that calls the frame interface, one call at a time
InitFrame ==
    /\ thermcam = FALSE
    /\ outputFrame = None
    /\ lock = Free
    /\ use_f = TRUE
    /\ filter_image = FALSE
    /\ colormap_index = 0
    /\ interpolation = "INTER_CUBIC"
    /\ raw_image = 0
    /\ image = 1
    /\ heap = [ o \in { 1 } |-> Rendered(0, "INTER_CUBIC", 0, FALSE, TRUE, FALSE) ]
    /\ current_frame_processed = TRUE
    /\ file_saved_notification_start = FALSE
    /\ pcp = "idle"
    /\ current_frame = None
    /\ branch = "cv2"
    /\ text = [ use_f |-> TRUE, interp |-> "INTER_CUBIC", cmap |-> 0, filt |-> FALSE ]
    /\ rpc = [ r \in Readers |-> "acquire" ]
    /\ encodedImage = [ r \in Readers |-> << >> ]
    /\ emitted = [ r \in Readers |-> << >> ]
    /\ published = << >>
    /\ hpc = [ h \in Handlers |-> "idle" ]
    /\ hop = [ h \in Handlers |-> "none" ]
    /\ htmp = [ h \in Handlers |-> NoValue ]
    /\ snap = [ h \in Handlers |-> None ]
    /\ requests = 0
    /\ snapshots = { }
    /\ lin = { }
    /\ appexit_response = "none"
    /\ dpc = "off"
    /\ exit_requested = FALSE
    /\ displaying_onscreen = FALSE
    /\ keys = << >>
    /\ calls = << >>
    /\ grid = [ i \in 1..GridCells |-> Fin(20) ]
    /\ temp_min = Fin(20)
    /\ temp_max = Fin(20)
    /\ scaled = [ dtype |-> "uint8", cells |-> [ i \in 1..GridCells |-> 0 ] ]

NextFrame ==
    \/ UpdateImageFrame
    \/ UpdateRawImageOnly
    \/ GetCurrentRawImageFrame
    \/ GetCurrentImageFrame

FrameSpec == InitFrame /\ [][NextFrame]_vars

\* ------------------------------------------- the overlay drawn by a caller
\* add_customized_text(text): cv2.putText draws on self._image in place
AddCustomizedText ==
    /\ heap' = [ heap EXCEPT ![image].custom = TRUE ]
    /\ UNCHANGED << thermcam, outputFrame, lock, camvars, prodvars,
                    file_saved_notification_start, readvars, published, handvars,
                    sidevars >>

\* the server with one stream client and a caller of add_customized_text
\* (the control routes write no image)
NextOverlay ==
    \/ Producer
    \/ Reader(1)
    \/ AddCustomizedText

OverlaySpec == Init /\ [][NextOverlay]_vars

\* the same with a request to /exit once the server runs
NextMain == NextDisplay \/ AppExit

MainSpec == InitDisplay /\ [][NextMain]_vars

\* the controls: the producer thread and the threads serving control requests,
\* started at index 0 or after one /colormap/prev served before the first frame
InitControl ==
    \E i \in { 0, NumColormaps - 1 } :
       /\ thermcam = TRUE
       /\ outputFrame = None
       /\ lock = Free
       /\ use_f = TRUE
       /\ filter_image = FALSE
       /\ colormap_index = i
       /\ interpolation = "INTER_CUBIC"
       /\ raw_image = 0
       /\ image = 1
       /\ heap = [ o \in { 1 } |-> Rendered(0, "INTER_CUBIC", 0, FALSE, TRUE, FALSE) ]
       /\ current_frame_processed = TRUE
       /\ file_saved_notification_start = FALSE
       /\ pcp = "while"
       /\ current_frame = None
       /\ branch = "cv2"
       /\ text = [ use_f |-> TRUE, interp |-> "INTER_CUBIC", cmap |-> 0, filt |-> FALSE ]
       /\ rpc = [ r \in Readers |-> "acquire" ]
       /\ encodedImage = [ r \in Readers |-> << >> ]
       /\ emitted = [ r \in Readers |-> << >> ]
       /\ published = << >>
       /\ hpc = [ h \in Handlers |-> "idle" ]
       /\ hop = [ h \in Handlers |-> "none" ]
       /\ htmp = [ h \in Handlers |-> NoValue ]
       /\ snap = [ h \in Handlers |-> None ]
       /\ requests = 0
       /\ snapshots = { }
       /\ lin = { [ rs |-> [ use_f |-> TRUE, filter_image |-> FALSE,
                             colormap_index |-> i, interpolation |-> "INTER_CUBIC" ],
                    d |-> { } ] }
       /\ InitSide

NextControl == Producer \/ (\E h \in Handlers : Handler(h))

ControlSpec == InitControl /\ [][NextControl]_vars

\* the producer and NumPollers connected stream clients, each of which keeps
\* being scheduled; threading.Lock promises no order among the threads waiting
\* for it
NextStream == Producer \/ (\E r \in Pollers : Reader(r))

FairSpec ==
    /\ Init /\ [][NextStream]_vars
    /\ WF_vars(Producer)
    /\ \A r \in Pollers : WF_vars(Reader(r))

\* ================================================================ claims
Latest == published[Len(published)]

\* an image that went through the whole of update_image_frame
FullyRendered(c) ==
    /\ c.cmap # -1 /\ c.flip /\ c.banner /\ c.text.interp # "none"
    /\ c.text.cmap # -1

\* the place of content c in the order of publication (0: never published)
PubIndex(p, c) ==
    IF c \in Range(p) THEN CHOOSE i \in 1..Len(p) : p[i] = c ELSE 0

\* C1: the slot holds exactly the frame published last (nothing before the
\* first publish), and a reader that has just read the slot under the lock has
\* that frame, never an earlier one.
C1_LatestWins ==
    /\ published = << >> => outputFrame = None
    /\ published # << >> =>
          /\ outputFrame # None
          /\ heap[outputFrame] = Latest
          /\ \A r \in Readers : rpc[r] = "exit" => encodedImage[r] = << Latest >>

\* C1 witness: A then B were published, and a reader that emitted A before has
\* now read B
C1_Witness ==
    /\ Len(published) >= 2
    /\ \E r \in Readers :
          /\ rpc[r] = "exit"
          /\ emitted[r] = << published[1] >>
          /\ encodedImage[r] = << published[2] >>

\* C2: with NumReaders readers, every part a reader emits is, whole, a fully
\* rendered frame the producer published, and a reader's successive parts never
\* go back in the order of publication (they may repeat or skip): the part a
\* reader is about to yield is not older than the part it yielded last.
C2_MonotoneUntorn ==
    \A r \in Readers :
       /\ emitted[r] # << >> =>
             /\ emitted[r][1] \in Range(published)
             /\ FullyRendered(emitted[r][1])
       /\ rpc[r] = "yield" =>
             /\ encodedImage[r][1] \in Range(published)
             /\ FullyRendered(encodedImage[r][1])
             /\ emitted[r] # << >> =>
                   PubIndex(published, encodedImage[r][1]) >=
                      PubIndex(published, emitted[r][1])

\* C2 witness: all readers have emitted, two of them are at different frames
C2_Witness ==
    /\ \A r \in Readers : emitted[r] # << >>
    /\ \E r1, r2 \in Readers : emitted[r1] # emitted[r2]
    /\ \E r \in Readers : rpc[r] = "yield" /\ encodedImage[r] # emitted[r]

\* C3: once the producer has a rendered frame to publish it eventually gets
\* the lock and publishes, whatever the readers do (weak fairness per thread).
C3_ProducerProgress == (pcp = "acquire") ~> (pcp = "release")

\* C4: no thread holds the lock while it encodes a frame or yields a part.
C4_LockOnlyForExchange ==
    \A r \in Readers : rpc[r] \in { "encode", "yield" } => lock # ByReader(r)

\* C5: when update_image_frame raised, the producer publishes nothing in that
\* iteration: it goes through the handler back to the head of the loop with
\* current_frame None, and the slot, the object it refers to and the history
\* of publications stay as they were.
C5_FailureKeepsSlot ==
    /\ [](pcp = "except" => current_frame = None)
    /\ [][(pcp = "except" \/ (pcp = "ifframe" /\ current_frame = None))
             /\ pcp' # pcp
          => /\ pcp' = (IF pcp = "except" THEN "ifframe" ELSE "while")
             /\ current_frame' = None
             /\ outputFrame' = outputFrame
             /\ published' = published
             /\ outputFrame # None => heap'[outputFrame] = heap[outputFrame]]_vars

\* C5 witness: a frame is published, a later acquisition failed and the handler
\* has run
C5_Witness ==
    /\ pcp = "ifframe" /\ current_frame = None
    /\ outputFrame # None /\ heap[outputFrame] = Latest
    /\ thermcam

Consistent(c) ==
    \E m \in Interpolations, k \in 0..(NumColormaps - 1), f, u, n \in BOOLEAN :
       c = Rendered(c.seq, m, k, f, u, n)

\* C6: every published frame is rendered from a single value of the render
\* state: the colormap applied, the branch and resize filter, the filter pass
\* and the four fields printed in the overlay agree.
C6_ConsistentFrames == \A i \in 1..Len(published) : Consistent(published[i])

\* C7: colormap_index is in 0..8 in every state, those between the statements
\* of change_colormap included.
C7_ColormapIndexInRange == colormap_index \in 0..(NumColormaps - 1)

\* C8: when no control request is in progress, the render state is one that
\* running the served requests one at a time, in an order that respects which
\* returned before which started, would have produced.
C8_ControlsAtomic == Pending = { } => RenderState \in { s.rs : s \in lin }

\* C9: every snapshot written is a frame that was the published one at some
\* moment of its request: the one in the slot when the request started or one
\* published before the file was written.
C9_SnapshotIsPublished ==
    \A s \in snapshots :
       \E i \in 1..Len(published) :
          i >= s.first /\ i <= s.last /\ published[i] = s.img

\* what belongs to the producer and to the hand-off
ProducerState ==
    << thermcam, outputFrame, lock, heap, camvars, prodvars,
       file_saved_notification_start, published >>

C12_LoopsSurviveErrors ==
    /\ pcp = "done" => (~ thermcam /\ appexit_response = "ok")
    /\ dpc \in { "done", "raised" } => exit_requested

\* C13: once a request to /exit was handled thermcam is cleared, pull_images
\* then eventually leaves its loop, also when the request came during an
\* acquisition, and after that the slot is never assigned again.
C13_ShutdownStopsProducer ==
    /\ [](appexit_response # "none" => ~ thermcam)
    /\ (appexit_response # "none") ~> (pcp = "done")
    /\ [][pcp = "done" => outputFrame' = outputFrame /\ published' = published]_vars

\* the position of mode m in the ordered set, from 0
Position(m) == (CHOOSE i \in 1..Len(InterpolationList) : InterpolationList[i] = m) - 1

\* the calls from the k-th to the last are all of route
AllCalls(k, n, route) == \A j \in k..n : calls[j].route = route

\* C14: each forward cycle moves the interpolation from position i of the
\* ordered set to position (i + 1) mod 7, so that 7 forward cycles from any
\* mode visit the 7 modes once each and end on the mode they started from.
C14_ForwardCycleVisitsAll ==
    /\ \A k \in 2..Len(calls) :
          calls[k].route = "interpolation_next" =>
             Position(calls[k].rs.interpolation) =
                (Position(calls[k - 1].rs.interpolation) + 1) % Len(InterpolationList)
    /\ (Len(calls) = Len(InterpolationList) + 1
          /\ AllCalls(2, Len(calls), "interpolation_next")) =>
          /\ calls[Len(calls)].rs.interpolation = calls[1].rs.interpolation
          /\ { calls[k].rs.interpolation : k \in 1..Len(InterpolationList) }
                = Interpolations

\* C15: a forward cycle followed by a backward one, and a backward one
\* followed by a forward one, leave the interpolation mode they found.
C15_InterpolationInverse ==
    \A k \in 3..Len(calls) :
       { calls[k - 1].route, calls[k].route }
          = { "interpolation_next", "interpolation_prev" } =>
             calls[k].rs.interpolation = calls[k - 2].rs.interpolation

\* C16: run alone from index i, a forward cycle leaves (i + 1) mod 9 and a
\* backward one (i - 1) mod 9, never negative, and neither changes another
\* field of the render state; three backward cycles from 0 give 6.
C16_ColormapCycle ==
    /\ \A k \in 2..Len(calls) :
          LET before == calls[k - 1].rs
              i == before.colormap_index
          IN  /\ calls[k].route = "colormap_next" =>
                    calls[k].rs = [ before EXCEPT !.colormap_index = (i + 1) % NumColormaps ]
              /\ calls[k].route = "colormap_prev" =>
                    calls[k].rs = [ before EXCEPT !.colormap_index = (i - 1) % NumColormaps ]
    /\ colormap_index \in 0..(NumColormaps - 1)
    /\ (Len(calls) = 4 /\ calls[1].rs.colormap_index = 0
          /\ AllCalls(2, 4, "colormap_prev")) => colormap_index = 6

\* C16 witness: three backward cycles from index 0
C16_Witness ==
    /\ Len(calls) = 4
    /\ calls[1].rs.colormap_index = 0
    /\ AllCalls(2, 4, "colormap_prev")
    /\ RenderState = calls[4].rs

\* C17: a forward colormap cycle followed by a backward one, and a backward one
\* followed by a forward one, leave the index they found, from every index.
C17_ColormapInverse ==
    \A k \in 3..Len(calls) :
       { calls[k - 1].route, calls[k].route } = { "colormap_next", "colormap_prev" } =>
          calls[k].rs.colormap_index = calls[k - 2].rs.colormap_index

\* C17 witness: from index 0 back to 8 and forward again, then on from 8 to 0
\* and back
C17_Witness ==
    /\ Len(calls) >= 5
    /\ calls[1].rs.colormap_index = 0
    /\ calls[2].route = "colormap_prev"
    /\ calls[2].rs.colormap_index = NumColormaps - 1
    /\ calls[3].route = "colormap_next" /\ calls[3].rs.colormap_index = 0
    /\ calls[4].route = "colormap_prev"
    /\ calls[5].route = "colormap_next" /\ colormap_index = 0

\* the grid with its non-finite cells set to 0
Sanitised(g) == [ i \in 1..Len(g) |-> IF g[i].k = "fin" THEN g[i] ELSE Fin(0) ]

Finite(g) == \A i \in 1..Len(g) : g[i].k = "fin"

\* C18: the non-finite readings are replaced by 0 before the range is taken:
\* after one acquisition temp_min and temp_max are the least and the greatest
\* cell of the sanitised grid, and with a single non-finite cell every other
\* cell is scaled as in the grid that has 0 in that cell.
C18_SanitiseBeforeRange ==
    pcp = "pulled" =>
       /\ temp_min = NpMin(Sanitised(grid))
       /\ temp_max = NpMax(Sanitised(grid))
       /\ \A j \in 1..GridCells :
             (grid[j].k # "fin" /\ \A i \in 1..GridCells \ { j } : grid[i].k = "fin") =>
                \E res \in TempsToRescaledUints(Sanitised(grid), NpMin(Sanitised(grid)),
                                                 NpMax(Sanitised(grid))) :
                   \A i \in 1..GridCells \ { j } : scaled.cells[i] = res.cells[i]

\* C19: a grid of finite readings with temp_max > temp_min is scaled cell by
\* cell to the truncated (v - temp_min) * 255 / (temp_max - temp_min), within
\* 0..255, 0 where the minimum is and 255 where the maximum is.
C19_NormaliseSpansRange ==
    (pcp = "pulled" /\ Finite(grid) /\ temp_max.n > temp_min.n) =>
       \A i \in 1..GridCells :
          /\ scaled.cells[i] =
                ((grid[i].n - temp_min.n) * 255) \div (temp_max.n - temp_min.n)
          /\ scaled.cells[i] \in 0..255
          /\ grid[i] = temp_min => scaled.cells[i] = 0
          /\ grid[i] = temp_max => scaled.cells[i] = 255

\* C20: a grid whose readings are all equal is acquired without an exception
\* and leaves a grid of as many cells, all 0, of 8-bit integers (no NaN).
C20_ZeroRange ==
    (pcp = "pulled" /\ temp_max = temp_min /\ temp_max.k # "nan") =>
       /\ scaled.dtype = "uint8"
       /\ Len(scaled.cells) = GridCells
       /\ \A i \in 1..GridCells : scaled.cells[i] = 0

\* C20 witness: every cell reads 20 and the acquisition is over
C20_Witness ==
    /\ pcp = "pulled"
    /\ grid = [ i \in 1..GridCells |-> Fin(20) ]
    /\ temp_min = Fin(20) /\ temp_max = Fin(20)
    /\ scaled.cells = [ i \in 1..GridCells |-> 0 ]
    /\ current_frame_processed = FALSE

\* C21: in the on-screen loop every key that names a render-state operation
\* ('c', 'x', 'f', 't', 'u', 'i') leaves the render state exactly as the
\* operation the printed shortcut summary announces for it would: 'u' the
\* previous interpolation, 'i' the next one, 'x' / 'c' the colormap backward /
\* forward, 'f' the filter toggled, 't' the units toggled, every other field
\* unchanged.
C21_KeysDoWhatIsPrinted ==
    [][ (Len(keys') = Len(keys) + 1
            /\ keys'[Len(keys')] \in { "c", "x", "f", "t", "u", "i" })
        => RenderState' = Apply(PrintShortcutsKeys(keys'[Len(keys')]), RenderState)
      ]_vars

\* C22: whenever _current_frame_processed is True, _image was made from the
\* current _raw_image: every pull of a new grid, one whose scaling failed and
\* fell back to the zero grid included, leaves the flag False, so that the
\* next get_current_image_frame() makes the image again.
C22_ProcessedFlag ==
    current_frame_processed => heap[image].seq = raw_image

\* what a reader finds in the slot
SlotContent == IF outputFrame = None THEN << >> ELSE << heap[outputFrame] >>

\* C23: the content of the published slot changes only by the producer's
\* assignment made while it holds the lock; between two publishes nothing the
\* producer or a caller draws on the working image _image (a new rendering,
\* the banner and the overlay text drawn in place, add_customized_text)
\* changes what the slot holds.
C23_SlotIsolated ==
    [][ SlotContent' # SlotContent =>
           /\ pcp = "assign" /\ pcp' = "release"
           /\ lock = ByProducer /\ lock' = ByProducer ]_vars

\* C23 witness: add_customized_text has drawn on the very image the slot was
\* copied from, and the slot still holds the frame as it was published
C23_Witness ==
    /\ outputFrame # None
    /\ published # << >>
    /\ heap[image].custom
    /\ ~ heap[outputFrame].custom
    /\ [ heap[image] EXCEPT !.custom = FALSE ] = heap[outputFrame]

\* the producer thread is inside thermcam.update_image_frame()
ProducerInUpdate ==
    pcp \notin { "idle", "while", "try", "except", "ifframe", "acquire", "assign",
                 "release", "done" }

\* the main thread has not left display_camera_onscreen
DisplayRunning == dpc \in { "while", "call", "keys", "except_retries", "except_other" }

\* C24: at most one thread runs the acquire-normalise-render sequence: with the
\* local display and the web server both on, the producer thread exists only
\* once the on-screen loop has returned, and a new grid is only ever acquired
\* by the on-screen loop or by the producer thread, never by a step of a
\* control handler or a stream reader.
C24_SingleProducer ==
    [][ /\ pcp' # "idle" => dpc' = "done"
        /\ ~ (ProducerInUpdate' /\ DisplayRunning')
        /\ raw_image' # raw_image =>
              /\ hpc' = hpc /\ rpc' = rpc
              /\ \/ dpc = "call" /\ dpc' = "keys" /\ pcp = "idle"
                 \/ pcp = "pull" /\ pcp' = "if1" /\ dpc = "done" ]_vars

\* C24 witness: the on-screen loop rendered a frame and returned, the server
\* is up and the producer thread acquires the next grid while a control
\* request and a stream client are being served
C24_Witness ==
    /\ dpc = "done"
    /\ ProducerInUpdate
    /\ raw_image = MaxFrames
    /\ published # << >>
    /\ hpc[1] # "idle"
    /\ rpc[1] # "acquire"
====
